---- MODULE Spec2Model ----
(***************************************************************************)
(* A model of the catprinter command line tools:                           *)
(*   - the print jobs main_text / main_image (catprinter/cli.py) and main  *)
(*     (print_text.py): specification Spec;                                *)
(*   - convert_text_to_image with wrap_text_to_width: specification        *)
(*     WrapSpec;                                                           *)
(*   - the font lookup loops of both files: specification FontSpec.        *)
(* Strings of the program are sequences of one-character strings.          *)
(***************************************************************************)
EXTENDS Integers, Sequences, FiniteSets, TLC

VARIABLES
    \* ---- print jobs (Spec) ----
    entry,          \* which entry point runs: "main_text", "main_image", "print_text"
    pc,             \* position in the entry point
    file_exists,    \* os.path.exists(args.text_file / args.filename)
    output_given,   \* args.output is set
    keep_image,     \* args.keep_image
    preview,        \* args.preview / args.show_preview
    energy_arg,     \* the -e argument as typed (a string), main_image only
    energy,         \* args.energy after the argparse type conversion
    temp_file,      \* local temp_file
    img_exists,     \* whether the path output_image exists in the file system
    bin_width,      \* bin_img.shape[1] once read_img has returned, else 0
    stages,         \* log of the stages started so far, "FAIL" after a failed one
    failure,        \* what failed, "none" while nothing has
    exit_pending,   \* status of the sys.exit / exception in flight, 0 if none
    exit_status,    \* process exit status, -1 while running
    \* ---- convert_text_to_image (WrapSpec) ----
    w_pc,           \* position in convert_text_to_image
    raw,            \* content of the text file as read
    width,          \* parameter width
    font,           \* the font in use (index into Fonts)
    text_content,   \* f.read().strip()
    original_lines, \* text_content.split('\n')
    line_no,        \* index of the next original line to process
    words,          \* wrap_text_to_width's local words of the last call
    wrapped,        \* return value of the last wrap_text_to_width call
    wrapped_lines,  \* accumulated wrapped lines
    origin,         \* for each wrapped line, the index of its original line
    line_heights,   \* measured height of each wrapped line
    y_position,     \* the drawing cursor
    draw_no,        \* index of the next wrapped line to draw, 0 before the loop
    img_size,       \* <<img_width, img_height>> of the created image, <<0, 0>> before
    saved,          \* img.save has written output_image
    result,         \* return value: "none" while running, "True", "False"
    \* ---- font lookup (FontSpec) ----
    f_pc,           \* position in the font lookup
    variant,        \* "cli" (cli.py) or "print_text" (print_text.py)
    cand,           \* per candidate path: "missing", "broken" or "ok"
    f_i,            \* loop index into font_paths
    f_font,         \* local font: 0 is None, k > 0 candidate k, -1 the default font
    emoji_font      \* local emoji_font (print_text.py): 0 is None, k > 0 candidate k

jobVars == <<entry, pc, file_exists, output_given, keep_image, preview, energy_arg,
             energy, temp_file, img_exists, bin_width, stages, failure,
             exit_pending, exit_status>>
wrapVars == <<w_pc, raw, width, font, text_content, original_lines, line_no, words,
              wrapped, wrapped_lines, origin, line_heights, y_position, draw_no,
              img_size, saved, result>>
fontVars == <<f_pc, variant, cand, f_i, f_font, emoji_font>>
vars == <<jobVars, wrapVars, fontVars>>

(***************************************************************************)
(* Generic helpers on sequences.                                           *)
(***************************************************************************)
Range(s) == {s[i] : i \in 1..Len(s)}

RECURSIVE SumSeq(_)
SumSeq(s) == IF s = <<>> THEN 0 ELSE Head(s) + SumSeq(Tail(s))

Max2(a, b) == IF a >= b THEN a ELSE b

(***************************************************************************)
(* The print jobs.                                                         *)
(***************************************************************************)
PRINT_WIDTH == 384
ENERGY_MAX == 65535

\* Widths the binarization engine may hand back: the print width, or another.
ReadWidths == {PRINT_WIDTH, PRINT_WIDTH - 64}

HexDigits == <<"0", "1", "2", "3", "4", "5", "6", "7", "8", "9",
               "a", "b", "c", "d", "e", "f">>
HexValue(c) == (CHOOSE i \in 1..16 : HexDigits[i] = c) - 1
IsHex(s) == s # <<>> /\ \A i \in 1..Len(s) : \E k \in 1..16 : HexDigits[k] = s[i]

\* str.removeprefix("0x")
RemovePrefix0x(s) ==
    IF Len(s) >= 2 /\ s[1] = "0" /\ s[2] = "x" THEN SubSeq(s, 3, Len(s)) ELSE s

RECURSIVE HexNat(_)
HexNat(s) == IF s = <<>> THEN 0
             ELSE 16 * HexNat(SubSeq(s, 1, Len(s) - 1)) + HexValue(s[Len(s)])

\* int(t, 16) for the strings drawn here: an optional sign, an optional 0x
\* prefix, hex digits; anything else is a ValueError.
IntBase16(t) ==
    LET neg  == t # <<>> /\ t[1] = "-"
        u    == IF neg THEN Tail(t) ELSE t
        body == RemovePrefix0x(u)
    IN  IF IsHex(body)
        THEN [ok |-> TRUE, val |-> IF neg THEN 0 - HexNat(body) ELSE HexNat(body)]
        ELSE [ok |-> FALSE, val |-> 0]

\* the type= lambda of the --energy argument
EnergyType(h) == IntBase16(RemovePrefix0x(h))

\* Values of -e tried: the default 0xffff, in range, above and below the
\* range, and a malformed one.
EnergyArgs == { <<"0", "x", "f", "f", "f", "f">>,
                <<"0", "x", "0", "0", "0", "0">>,
                <<"8", "0", "0", "0">>,
                <<"0", "x", "1", "0", "0", "0", "0">>,
                <<"-", "1">>,
                <<"0", "x", "z">> }

Entries == {"main_text", "main_image", "print_text"}

JobInit ==
    /\ entry \in Entries
    /\ pc = "start"
    /\ file_exists \in BOOLEAN
    /\ output_given \in (IF entry = "main_image" THEN {FALSE} ELSE BOOLEAN)
    /\ keep_image \in (IF entry = "main_image" THEN {FALSE} ELSE BOOLEAN)
    /\ preview \in BOOLEAN
    /\ energy_arg \in (IF entry = "main_image" THEN EnergyArgs
                       ELSE {<<"0", "x", "f", "f", "f", "f">>})
    /\ energy = ENERGY_MAX
    /\ temp_file = FALSE
    \* a path given with -o may or may not exist beforehand
    /\ img_exists \in (IF output_given THEN BOOLEAN ELSE {FALSE})
    /\ bin_width = 0
    /\ stages = <<>>
    /\ failure = "none"
    /\ exit_pending = 0
    /\ exit_status = -1

JobIdle ==
    /\ entry = "main_text"
    /\ pc = "idle"
    /\ file_exists = FALSE
    /\ output_given = FALSE
    /\ keep_image = FALSE
    /\ preview = FALSE
    /\ energy_arg = <<>>
    /\ energy = ENERGY_MAX
    /\ temp_file = FALSE
    /\ img_exists = FALSE
    /\ bin_width = 0
    /\ stages = <<>>
    /\ failure = "none"
    /\ exit_pending = 0
    /\ exit_status = -1

\* A stage ran into a failure: log what was started and the failure, remember
\* why, and go on at `next` with the status of the sys.exit / exception in flight.
Fail(started, why, status, next) ==
    /\ stages' = stages \o started \o <<"FAIL">>
    /\ failure' = why
    /\ exit_pending' = status
    /\ pc' = next

\* sys.exit(status), or an exception, with no enclosing finally: the process ends.
FailAndExit(started, why, status) ==
    /\ stages' = stages \o started \o <<"FAIL">>
    /\ failure' = why
    /\ exit_pending' = status
    /\ exit_status' = status
    /\ pc' = "exited"

\* The finally block's condition without its test of args.keep_image.
CleanupDeletesAlways(is_temp, keep, exists) == is_temp /\ exists
\* The condition under which the finally block unlinks output_image.
CleanupDeletes(is_temp, keep, exists) == is_temp /\ ~keep /\ exists

\* Going on to read_img after a failed conversion, as without the sys.exit(1).
AfterConvertFailedGoOn == "read_img"
\* Where main_text / main go after convert_text_to_image returned False:
\* sys.exit(1) inside the try block, so straight to the finally block.
AfterConvertFailed == "finally"

ConvertOutcomes == {"ok", "empty", "error"}

\* ------------------------------------------------------------ main_text
MainText_CheckFile ==
    /\ entry = "main_text" /\ pc = "start"
    /\ IF file_exists
       THEN /\ stages' = stages \o <<"ACQUIRE_IMAGE">>
            /\ pc' = "mk_output"
            /\ UNCHANGED <<failure, exit_pending, exit_status>>
       ELSE FailAndExit(<<"ACQUIRE_IMAGE">>, "missing_file", 1)
    /\ UNCHANGED <<wrapVars, fontVars>>
    /\ UNCHANGED <<entry, file_exists, output_given, keep_image, preview, energy_arg,
                   energy, temp_file, img_exists, bin_width>>

MainText_MkOutput ==
    /\ entry = "main_text" /\ pc = "mk_output"
    /\ IF output_given
       THEN temp_file' = FALSE /\ UNCHANGED img_exists
       ELSE temp_file' = TRUE /\ img_exists' = TRUE     \* tempfile.mkstemp
    /\ pc' = "convert"
    /\ UNCHANGED <<wrapVars, fontVars>>
    /\ UNCHANGED <<entry, file_exists, output_given, keep_image, preview, energy_arg,
                   energy, bin_width, stages, failure, exit_pending, exit_status>>

MainText_Convert ==
    /\ entry = "main_text" /\ pc = "convert"
    /\ \E o \in ConvertOutcomes :
         IF o = "ok"
         THEN /\ img_exists' = TRUE                     \* img.save(output_image)
              /\ pc' = "read_img"
              /\ UNCHANGED <<stages, failure, exit_pending>>
         ELSE /\ Fail(<<>>, o, 1, AfterConvertFailed)
              \* an exception may come before or after img.save opened the file
              /\ img_exists' \in (IF o = "error" THEN {img_exists, TRUE}
                                                  ELSE {img_exists})
    /\ UNCHANGED <<wrapVars, fontVars>>
    /\ UNCHANGED <<entry, file_exists, output_given, keep_image, preview, energy_arg,
                   energy, temp_file, bin_width, exit_status>>

MainText_ReadImg ==
    /\ entry = "main_text" /\ pc = "read_img"
    /\ \/ \E w \in ReadWidths :
            /\ bin_width' = w
            /\ stages' = stages \o <<"BINARIZE">>
            /\ pc' = "preview"
            /\ UNCHANGED <<failure, exit_pending>>
       \/ /\ Fail(<<"BINARIZE">>, "binarize", 1, "finally")
          /\ UNCHANGED bin_width
    /\ UNCHANGED <<wrapVars, fontVars>>
    /\ UNCHANGED <<entry, file_exists, output_given, keep_image, preview, energy_arg,
                   energy, temp_file, img_exists, exit_status>>

MainText_Preview ==
    /\ entry = "main_text" /\ pc = "preview"
    /\ IF preview
       THEN \/ /\ stages' = stages \o <<"PREVIEW">>
               /\ pc' = "encode"
               /\ UNCHANGED <<failure, exit_pending>>
            \/ Fail(<<"PREVIEW">>, "preview", 1, "finally")
       ELSE pc' = "encode" /\ UNCHANGED <<stages, failure, exit_pending>>
    /\ UNCHANGED <<wrapVars, fontVars>>
    /\ UNCHANGED <<entry, file_exists, output_given, keep_image, preview, energy_arg,
                   energy, temp_file, img_exists, bin_width, exit_status>>

MainText_Encode ==
    /\ entry = "main_text" /\ pc = "encode"
    /\ \/ /\ stages' = stages \o <<"ENCODE">>
          /\ pc' = "transmit"
          /\ UNCHANGED <<failure, exit_pending>>
       \/ Fail(<<"ENCODE">>, "encode", 1, "finally")
    /\ UNCHANGED <<wrapVars, fontVars>>
    /\ UNCHANGED <<entry, file_exists, output_given, keep_image, preview, energy_arg,
                   energy, temp_file, img_exists, bin_width, exit_status>>

MainText_Transmit ==
    /\ entry = "main_text" /\ pc = "transmit"
    /\ \/ /\ stages' = stages \o <<"TRANSMIT">>
          /\ pc' = "finally"
          /\ UNCHANGED <<failure, exit_pending>>
       \/ Fail(<<"TRANSMIT">>, "transmit", 1, "finally")    \* except Exception
       \/ Fail(<<"TRANSMIT">>, "interrupt", 1, "finally")   \* KeyboardInterrupt
    /\ UNCHANGED <<wrapVars, fontVars>>
    /\ UNCHANGED <<entry, file_exists, output_given, keep_image, preview, energy_arg,
                   energy, temp_file, img_exists, bin_width, exit_status>>

MainText_Finally ==
    /\ entry = "main_text" /\ pc = "finally"
    /\ stages' = stages \o <<"CLEANUP">>
    /\ img_exists' = IF CleanupDeletes(temp_file, keep_image, img_exists)
                     THEN FALSE ELSE img_exists           \* os.unlink
    /\ exit_status' = exit_pending
    /\ pc' = "exited"
    /\ UNCHANGED <<wrapVars, fontVars>>
    /\ UNCHANGED <<entry, file_exists, output_given, keep_image, preview, energy_arg,
                   energy, temp_file, bin_width, failure, exit_pending>>

\* ----------------------------------------------------------- main_image
MainImage_ParseArgs ==
    /\ entry = "main_image" /\ pc = "start"
    /\ LET r == EnergyType(energy_arg)
       IN  IF r.ok
           THEN /\ energy' = r.val
                /\ pc' = "check_file"
                /\ UNCHANGED <<failure, exit_pending, exit_status>>
           ELSE /\ failure' = "bad_args"                 \* argparse error
                /\ exit_pending' = 2
                /\ exit_status' = 2
                /\ pc' = "exited"
                /\ UNCHANGED energy
    /\ UNCHANGED <<wrapVars, fontVars>>
    /\ UNCHANGED <<entry, file_exists, output_given, keep_image, preview, energy_arg,
                   temp_file, img_exists, bin_width, stages>>

MainImage_CheckFile ==
    /\ entry = "main_image" /\ pc = "check_file"
    /\ IF file_exists
       THEN /\ stages' = stages \o <<"ACQUIRE_IMAGE">>
            /\ pc' = "read_img"
            /\ UNCHANGED <<failure, exit_pending, exit_status>>
       ELSE FailAndExit(<<"ACQUIRE_IMAGE">>, "missing_file", 1)
    /\ UNCHANGED <<wrapVars, fontVars>>
    /\ UNCHANGED <<entry, file_exists, output_given, keep_image, preview, energy_arg,
                   energy, temp_file, img_exists, bin_width>>

MainImage_ReadImg ==
    /\ entry = "main_image" /\ pc = "read_img"
    /\ \/ \E w \in ReadWidths :
            /\ bin_width' = w
            /\ stages' = stages \o <<"BINARIZE">>
            /\ pc' = "preview"
            /\ UNCHANGED <<failure, exit_pending, exit_status>>
       \/ /\ FailAndExit(<<"BINARIZE">>, "binarize", 1)
          /\ UNCHANGED bin_width
    /\ UNCHANGED <<wrapVars, fontVars>>
    /\ UNCHANGED <<entry, file_exists, output_given, keep_image, preview, energy_arg,
                   energy, temp_file, img_exists>>

MainImage_Preview ==
    /\ entry = "main_image" /\ pc = "preview"
    /\ IF preview
       THEN \/ /\ stages' = stages \o <<"PREVIEW">>
               /\ pc' = "encode"
               /\ UNCHANGED <<failure, exit_pending, exit_status>>
            \/ FailAndExit(<<"PREVIEW">>, "preview", 1)
       ELSE pc' = "encode" /\ UNCHANGED <<stages, failure, exit_pending, exit_status>>
    /\ UNCHANGED <<wrapVars, fontVars>>
    /\ UNCHANGED <<entry, file_exists, output_given, keep_image, preview, energy_arg,
                   energy, temp_file, img_exists, bin_width>>

\* cmds_print_img(bin_img, energy=args.energy): called with whatever energy was
\* parsed; the encoder may accept it or raise.
MainImage_Encode ==
    /\ entry = "main_image" /\ pc = "encode"
    /\ \/ /\ stages' = stages \o <<"ENCODE">>
          /\ pc' = "transmit"
          /\ UNCHANGED <<failure, exit_pending, exit_status>>
       \/ FailAndExit(<<"ENCODE">>, "encode", 1)
    /\ UNCHANGED <<wrapVars, fontVars>>
    /\ UNCHANGED <<entry, file_exists, output_given, keep_image, preview, energy_arg,
                   energy, temp_file, img_exists, bin_width>>

MainImage_Transmit ==
    /\ entry = "main_image" /\ pc = "transmit"
    /\ \/ /\ stages' = stages \o <<"TRANSMIT">>
          /\ exit_status' = 0
          /\ pc' = "exited"
          /\ UNCHANGED <<failure, exit_pending>>
       \/ FailAndExit(<<"TRANSMIT">>, "transmit", 1)      \* except Exception
       \/ FailAndExit(<<"TRANSMIT">>, "interrupt", 1)     \* KeyboardInterrupt
    /\ UNCHANGED <<wrapVars, fontVars>>
    /\ UNCHANGED <<entry, file_exists, output_given, keep_image, preview, energy_arg,
                   energy, temp_file, img_exists, bin_width>>

\* ------------------------------------------------- main of print_text.py
PrintText_CheckFile ==
    /\ entry = "print_text" /\ pc = "start"
    /\ IF file_exists
       THEN /\ stages' = stages \o <<"ACQUIRE_IMAGE">>
            /\ pc' = "mk_output"
            /\ UNCHANGED <<failure, exit_pending, exit_status>>
       ELSE FailAndExit(<<"ACQUIRE_IMAGE">>, "missing_file", 1)
    /\ UNCHANGED <<wrapVars, fontVars>>
    /\ UNCHANGED <<entry, file_exists, output_given, keep_image, preview, energy_arg,
                   energy, temp_file, img_exists, bin_width>>

PrintText_MkOutput ==
    /\ entry = "print_text" /\ pc = "mk_output"
    /\ IF output_given
       THEN temp_file' = FALSE /\ UNCHANGED img_exists
       ELSE temp_file' = TRUE /\ img_exists' = TRUE     \* tempfile.mkstemp
    /\ pc' = "convert"
    /\ UNCHANGED <<wrapVars, fontVars>>
    /\ UNCHANGED <<entry, file_exists, output_given, keep_image, preview, energy_arg,
                   energy, bin_width, stages, failure, exit_pending, exit_status>>

PrintText_Convert ==
    /\ entry = "print_text" /\ pc = "convert"
    /\ \E o \in ConvertOutcomes :
         IF o = "ok"
         THEN /\ img_exists' = TRUE
              /\ pc' = "print"
              /\ UNCHANGED <<stages, failure, exit_pending>>
         ELSE /\ Fail(<<>>, o, 1, AfterConvertFailed)
              /\ img_exists' \in (IF o = "error" THEN {img_exists, TRUE}
                                                  ELSE {img_exists})
    /\ UNCHANGED <<wrapVars, fontVars>>
    /\ UNCHANGED <<entry, file_exists, output_given, keep_image, preview, energy_arg,
                   energy, temp_file, bin_width, exit_status>>

\* subprocess.run(['./print.py', output_image, ...]): the child process does
\* BINARIZE .. TRANSMIT; the parent sees its return code, or an OSError when
\* the child cannot be started.
PrintText_RunPrint ==
    /\ entry = "print_text" /\ pc = "print"
    /\ \/ /\ stages' = stages \o <<"PRINT">>              \* returncode == 0
          /\ pc' = "finally"
          /\ UNCHANGED <<failure, exit_pending>>
       \/ Fail(<<"PRINT">>, "print", exit_pending, "finally")  \* returncode != 0
       \/ Fail(<<"PRINT">>, "spawn", 1, "finally")        \* OSError
    /\ UNCHANGED <<wrapVars, fontVars>>
    /\ UNCHANGED <<entry, file_exists, output_given, keep_image, preview, energy_arg,
                   energy, temp_file, img_exists, bin_width, exit_status>>

PrintText_Finally ==
    /\ entry = "print_text" /\ pc = "finally"
    /\ stages' = stages \o <<"CLEANUP">>
    /\ img_exists' = IF CleanupDeletes(temp_file, keep_image, img_exists)
                     THEN FALSE ELSE img_exists
    /\ exit_status' = exit_pending
    /\ pc' = "exited"
    /\ UNCHANGED <<wrapVars, fontVars>>
    /\ UNCHANGED <<entry, file_exists, output_given, keep_image, preview, energy_arg,
                   energy, temp_file, bin_width, failure, exit_pending>>

JobNext ==
    \/ MainText_CheckFile \/ MainText_MkOutput \/ MainText_Convert
    \/ MainText_ReadImg \/ MainText_Preview \/ MainText_Encode
    \/ MainText_Transmit \/ MainText_Finally
    \/ MainImage_ParseArgs \/ MainImage_CheckFile \/ MainImage_ReadImg
    \/ MainImage_Preview \/ MainImage_Encode \/ MainImage_Transmit
    \/ PrintText_CheckFile \/ PrintText_MkOutput \/ PrintText_Convert
    \/ PrintText_RunPrint \/ PrintText_Finally

(***************************************************************************)
(* convert_text_to_image and wrap_text_to_width.  The body below the font   *)
(* lookup is the same text in cli.py and in print_text.py.  Widths and     *)
(* glyph sizes are small stand-ins for the pixel sizes of real fonts.      *)
(***************************************************************************)
MaxLen == 5              \* longest text file content tried, in characters

WIDTH_MARGIN == 20       \* available_width = width - 20
PADDING == 10            \* y_position = 10, draw.text((10, ...))
LINE_SPACING == 5
EDGE_PADDING == 20       \* img_height = max(total_height + 20, 50)
MIN_HEIGHT == 50

Alphabet == {"a", "b", " ", "\n"}
Texts == UNION {[1..n -> Alphabet] : n \in 0..MaxLen}

\* Values of the width parameter tried: available_width is -3, 0, 3 and 6.
Widths == {WIDTH_MARGIN - 3, WIDTH_MARGIN, WIDTH_MARGIN + 3, WIDTH_MARGIN + 6}

\* The fonts tried, each loaded at its font_size: the advance and the height
\* of every glyph.
Fonts == << [size |-> 16, adv |-> [a |-> 2, b |-> 7, sp |-> 1], ht |-> [a |-> 3, b |-> 5]],
            [size |-> 8,  adv |-> [a |-> 1, b |-> 3, sp |-> 2], ht |-> [a |-> 2, b |-> 4]] >>

IsSpace(c) == c \in {" ", "\n"}

\* str.strip()
RECURSIVE LStrip(_)
LStrip(s) == IF s # <<>> /\ IsSpace(Head(s)) THEN LStrip(Tail(s)) ELSE s
RECURSIVE RStrip(_)
RStrip(s) == IF s # <<>> /\ IsSpace(s[Len(s)])
             THEN RStrip(SubSeq(s, 1, Len(s) - 1)) ELSE s
Strip(s) == RStrip(LStrip(s))

\* str.split(sep) with a one-character separator: every separator splits, so
\* adjacent separators give empty strings, and ''.split(sep) is [''].
RECURSIVE Split(_, _)
Split(s, sep) ==
    IF \E i \in 1..Len(s) : s[i] = sep
    THEN LET i == CHOOSE k \in 1..Len(s) :
                      s[k] = sep /\ \A j \in 1..(k - 1) : s[j] # sep
         IN  <<SubSeq(s, 1, i - 1)>> \o Split(SubSeq(s, i + 1, Len(s)), sep)
    ELSE <<s>>

\* sep.join(list)
RECURSIVE Join(_, _)
Join(list, sep) ==
    IF list = <<>> THEN <<>>
    ELSE IF Len(list) = 1 THEN list[1]
    ELSE list[1] \o <<sep>> \o Join(Tail(list), sep)

GlyphAdvance(f, c) ==
    CASE c = "a" -> Fonts[f].adv.a
      [] c = "b" -> Fonts[f].adv.b
      [] OTHER   -> Fonts[f].adv.sp

GlyphHeight(f, c) ==
    CASE c = "a" -> Fonts[f].ht.a
      [] c = "b" -> Fonts[f].ht.b
      [] OTHER   -> 0

\* bbox[2] - bbox[0] of temp_draw.textbbox((0, 0), s, font=font)
RECURSIVE TextWidth(_, _)
TextWidth(f, s) ==
    IF s = <<>> THEN 0 ELSE GlyphAdvance(f, Head(s)) + TextWidth(f, Tail(s))

\* bbox[3] - bbox[1] of temp_draw.textbbox((0, 0), s, font=font)
RECURSIVE TextHeight(_, _)
TextHeight(f, s) ==
    IF s = <<>> THEN 0 ELSE Max2(GlyphHeight(f, Head(s)), TextHeight(f, Tail(s)))

\* The accept test with the budget taken one pixel too wide.
AcceptsOffByOne(line_width, max_width, current_line) ==
    line_width <= max_width + 1 \/ current_line = <<>>
\* The test that appends the word to the current line.
Accepts(line_width, max_width, current_line) ==
    line_width <= max_width \/ current_line = <<>>

\* The for loop of wrap_text_to_width from word i on, and the last flush.
RECURSIVE WrapLoop(_, _, _, _, _, _)
WrapLoop(ws, i, lines, current_line, f, max_width) ==
    IF i > Len(ws)
    THEN IF current_line # <<>> THEN Append(lines, Join(current_line, " ")) ELSE lines
    ELSE LET word       == ws[i]
             test_line  == Join(current_line \o <<word>>, " ")
             line_width == TextWidth(f, test_line)
         IN  IF Accepts(line_width, max_width, current_line)
             THEN WrapLoop(ws, i + 1, lines, Append(current_line, word), f, max_width)
             ELSE WrapLoop(ws, i + 1,
                           IF current_line # <<>>
                           THEN Append(lines, Join(current_line, " ")) ELSE lines,
                           <<word>>, f, max_width)

wrap_text_to_width(text, f, max_width) ==
    WrapLoop(Split(text, " "), 1, <<>>, <<>>, f, max_width)

\* line_heights: measured for a non-blank wrapped line, font_size for a blank one
LineHeight(f, line) ==
    IF Strip(line) # <<>> THEN TextHeight(f, line) ELSE Fonts[f].size

WrapInit ==
    /\ w_pc = "read"
    /\ raw \in Texts
    /\ width \in Widths
    /\ font \in 1..Len(Fonts)
    /\ text_content = <<>>
    /\ original_lines = <<>>
    /\ line_no = 0
    /\ words = <<>>
    /\ wrapped = <<>>
    /\ wrapped_lines = <<>>
    /\ origin = <<>>
    /\ line_heights = <<>>
    /\ y_position = 0
    /\ draw_no = 0
    /\ img_size = <<0, 0>>
    /\ saved = FALSE
    /\ result = "none"

WrapIdle ==
    /\ w_pc = "idle"
    /\ raw = <<>>
    /\ width = PRINT_WIDTH
    /\ font = 1
    /\ text_content = <<>>
    /\ original_lines = <<>>
    /\ line_no = 0
    /\ words = <<>>
    /\ wrapped = <<>>
    /\ wrapped_lines = <<>>
    /\ origin = <<>>
    /\ line_heights = <<>>
    /\ y_position = 0
    /\ draw_no = 0
    /\ img_size = <<0, 0>>
    /\ saved = FALSE
    /\ result = "none"

\* Read the file, strip it, refuse an empty text.
Conv_ReadText ==
    /\ w_pc = "read"
    /\ text_content' = Strip(raw)
    /\ IF Strip(raw) = <<>>
       THEN result' = "False" /\ w_pc' = "returned"
       ELSE result' = result /\ w_pc' = "split"
    /\ UNCHANGED <<raw, width, font, original_lines, line_no, words, wrapped,
                   wrapped_lines, origin, line_heights, y_position, img_size, saved>>
    /\ UNCHANGED <<jobVars, fontVars, draw_no>>

Conv_SplitLines ==
    /\ w_pc = "split"
    /\ original_lines' = Split(text_content, "\n")
    /\ line_no' = 1
    /\ w_pc' = "wrap"
    /\ UNCHANGED <<raw, width, font, text_content, words, wrapped, wrapped_lines,
                   origin, line_heights, y_position, img_size, saved, result>>
    /\ UNCHANGED <<jobVars, fontVars, draw_no>>

\* One round of the loop over original_lines.
Conv_WrapLine ==
    /\ w_pc = "wrap"
    /\ line_no <= Len(original_lines)
    /\ LET original_line   == original_lines[line_no]
           available_width == width - WIDTH_MARGIN
       IN  IF Strip(original_line) # <<>>
           THEN LET w == wrap_text_to_width(original_line, font, available_width)
                IN  /\ words' = Split(original_line, " ")
                    /\ wrapped' = w
                    /\ wrapped_lines' = wrapped_lines \o w
                    /\ origin' = origin \o [k \in 1..Len(w) |-> line_no]
           ELSE /\ words' = <<>>
                /\ wrapped' = <<>>
                /\ wrapped_lines' = Append(wrapped_lines, <<>>)
                /\ origin' = Append(origin, line_no)
    /\ line_no' = line_no + 1
    /\ UNCHANGED <<w_pc, raw, width, font, text_content, original_lines, line_heights,
                   y_position, img_size, saved, result>>
    /\ UNCHANGED <<jobVars, fontVars, draw_no>>

Conv_Measure ==
    /\ w_pc = "wrap"
    /\ line_no > Len(original_lines)
    /\ line_heights' = [k \in 1..Len(wrapped_lines) |-> LineHeight(font, wrapped_lines[k])]
    /\ w_pc' = "compose"
    /\ UNCHANGED <<raw, width, font, text_content, original_lines, line_no, words,
                   wrapped, wrapped_lines, origin, y_position, img_size, saved, result>>
    /\ UNCHANGED <<jobVars, fontVars, draw_no>>

\* total_height with one line spacing too many (one after the last line too).
TotalHeightSpacingAfterEach(heights) == SumSeq(heights) + Len(heights) * LINE_SPACING
\* total_height: the line heights and the spacing between the lines
TotalHeight(heights) == SumSeq(heights) + (Len(heights) - 1) * LINE_SPACING

\* img_height
ImgHeight(heights) == Max2(TotalHeight(heights) + EDGE_PADDING, MIN_HEIGHT)

\* The cursor after a line of the given height.
NextY(y, line_height) == y + line_height + LINE_SPACING

\* Size and create the image, put the cursor at the top padding.
Conv_Compose ==
    /\ w_pc = "compose"
    /\ img_size' = <<width, ImgHeight(line_heights)>>
    /\ y_position' = PADDING
    /\ draw_no' = 1
    /\ w_pc' = "draw"
    /\ UNCHANGED <<raw, width, font, text_content, original_lines, line_no, words,
                   wrapped, wrapped_lines, origin, line_heights, saved, result>>
    /\ UNCHANGED <<jobVars, fontVars>>

\* One round of the drawing loop: a non-blank line is drawn at the cursor,
\* and the cursor moves on after every line.
Conv_DrawLine ==
    /\ w_pc = "draw"
    /\ draw_no <= Len(wrapped_lines)
    /\ y_position' = NextY(y_position, line_heights[draw_no])
    /\ draw_no' = draw_no + 1
    /\ UNCHANGED <<w_pc, raw, width, font, text_content, original_lines, line_no,
                   words, wrapped, wrapped_lines, origin, line_heights, img_size,
                   saved, result>>
    /\ UNCHANGED <<jobVars, fontVars>>

\* img.save and return True; an exception (the file cannot be written) is
\* caught and the function returns False.
Conv_Save ==
    /\ w_pc = "draw"
    /\ draw_no > Len(wrapped_lines)
    /\ \/ saved' = TRUE /\ result' = "True"
       \/ saved' = saved /\ result' = "False"
    /\ w_pc' = "returned"
    /\ UNCHANGED <<raw, width, font, text_content, original_lines, line_no, words,
                   wrapped, wrapped_lines, origin, line_heights, y_position, draw_no,
                   img_size>>
    /\ UNCHANGED <<jobVars, fontVars>>

WrapNext ==
    \/ Conv_ReadText \/ Conv_SplitLines \/ Conv_WrapLine
    \/ Conv_Measure \/ Conv_Compose \/ Conv_DrawLine \/ Conv_Save

(***************************************************************************)
(* The font lookup at the head of convert_text_to_image, in cli.py and in  *)
(* print_text.py.                                                          *)
(***************************************************************************)
\* font_paths of cli.py
FontPathsCli ==
    << <<"/", "S", "y", "s", "t", "e", "m", "/", "L", "i", "b", "r", "a", "r",
          "y", "/", "F", "o", "n", "t", "s", "/", "H", "e", "l", "v", "e", "t",
          "i", "c", "a", ".", "t", "t", "c">>,
       <<"/", "S", "y", "s", "t", "e", "m", "/", "L", "i", "b", "r", "a", "r",
          "y", "/", "F", "o", "n", "t", "s", "/", "A", "r", "i", "a", "l", ".",
          "t", "t", "f">>,
       <<"/", "u", "s", "r", "/", "s", "h", "a", "r", "e", "/", "f", "o", "n",
          "t", "s", "/", "t", "r", "u", "e", "t", "y", "p", "e", "/", "l", "i",
          "b", "e", "r", "a", "t", "i", "o", "n", "/", "L", "i", "b", "e", "r",
          "a", "t", "i", "o", "n", "S", "a", "n", "s", "-", "R", "e", "g", "u",
          "l", "a", "r", ".", "t", "t", "f">>,
       <<"C", ":", "\\", "W", "i", "n", "d", "o", "w", "s", "\\", "F", "o",
          "n", "t", "s", "\\", "a", "r", "i", "a", "l", ".", "t", "t", "f">> >>

\* font_paths of print_text.py
FontPathsPt ==
    << <<"/", "S", "y", "s", "t", "e", "m", "/", "L", "i", "b", "r", "a", "r",
          "y", "/", "F", "o", "n", "t", "s", "/", "A", "p", "p", "l", "e", " ",
          "C", "o", "l", "o", "r", " ", "E", "m", "o", "j", "i", ".", "t", "t",
          "c">>,
       <<"/", "S", "y", "s", "t", "e", "m", "/", "L", "i", "b", "r", "a", "r",
          "y", "/", "F", "o", "n", "t", "s", "/", "H", "e", "l", "v", "e", "t",
          "i", "c", "a", ".", "t", "t", "c">>,
       <<"/", "S", "y", "s", "t", "e", "m", "/", "L", "i", "b", "r", "a", "r",
          "y", "/", "F", "o", "n", "t", "s", "/", "A", "r", "i", "a", "l", ".",
          "t", "t", "f">>,
       <<"/", "u", "s", "r", "/", "s", "h", "a", "r", "e", "/", "f", "o", "n",
          "t", "s", "/", "t", "r", "u", "e", "t", "y", "p", "e", "/", "n", "o",
          "t", "o", "/", "N", "o", "t", "o", "C", "o", "l", "o", "r", "E", "m",
          "o", "j", "i", ".", "t", "t", "f">>,
       <<"/", "u", "s", "r", "/", "s", "h", "a", "r", "e", "/", "f", "o", "n",
          "t", "s", "/", "t", "r", "u", "e", "t", "y", "p", "e", "/", "l", "i",
          "b", "e", "r", "a", "t", "i", "o", "n", "/", "L", "i", "b", "e", "r",
          "a", "t", "i", "o", "n", "S", "a", "n", "s", "-", "R", "e", "g", "u",
          "l", "a", "r", ".", "t", "t", "f">>,
       <<"C", ":", "\\", "W", "i", "n", "d", "o", "w", "s", "\\", "F", "o",
          "n", "t", "s", "\\", "s", "e", "g", "u", "i", "e", "m", "j", ".",
          "t", "t", "f">>,
       <<"C", ":", "\\", "W", "i", "n", "d", "o", "w", "s", "\\", "F", "o",
          "n", "t", "s", "\\", "a", "r", "i", "a", "l", ".", "t", "t", "f">> >>

FontPaths(v) == IF v = "cli" THEN FontPathsCli ELSE FontPathsPt

\* str.lower() on the characters that occur in the paths
UpperCase == <<"A", "C", "E", "F", "H", "L", "N", "R", "S", "W">>
LowerCase == <<"a", "c", "e", "f", "h", "l", "n", "r", "s", "w">>
LowerChar(c) ==
    IF \E i \in 1..Len(UpperCase) : UpperCase[i] = c
    THEN LowerCase[CHOOSE i \in 1..Len(UpperCase) : UpperCase[i] = c]
    ELSE c
Lower(s) == [i \in 1..Len(s) |-> LowerChar(s[i])]

\* sub in s
Contains(s, sub) ==
    \E i \in 1..(Len(s) - Len(sub) + 1) : SubSeq(s, i, i + Len(sub) - 1) = sub

\* 'emoji' in font_path.lower() or 'color' in font_path.lower()
IsEmojiPath(font_path) ==
    \/ Contains(Lower(font_path), <<"e", "m", "o", "j", "i">>)
    \/ Contains(Lower(font_path), <<"c", "o", "l", "o", "r">>)

CandStates == {"missing", "broken", "ok"}
DEFAULT_FONT == -1

FontInit ==
    /\ f_pc = "loop"
    /\ variant \in {"cli", "print_text"}
    /\ cand \in [1..Len(FontPaths(variant)) -> CandStates]
    /\ f_i = 1
    /\ f_font = 0
    /\ emoji_font = 0

FontIdle ==
    /\ f_pc = "idle"
    /\ variant = "cli"
    /\ cand = <<>>
    /\ f_i = 0
    /\ f_font = 0
    /\ emoji_font = 0

\* cli.py: one round of the loop over font_paths; the first font that loads
\* ends the loop.
CliFont_Try ==
    /\ variant = "cli" /\ f_pc = "loop" /\ f_i <= Len(FontPathsCli)
    /\ IF cand[f_i] = "ok"
       THEN f_font' = f_i /\ f_pc' = "after" /\ f_i' = f_i          \* break
       ELSE f_font' = f_font /\ f_pc' = f_pc /\ f_i' = f_i + 1      \* next path
    /\ UNCHANGED <<variant, cand, emoji_font>>
    /\ UNCHANGED <<jobVars, wrapVars>>

CliFont_LoopEnd ==
    /\ variant = "cli" /\ f_pc = "loop" /\ f_i > Len(FontPathsCli)
    /\ f_pc' = "after"
    /\ UNCHANGED <<variant, cand, f_i, f_font, emoji_font>>
    /\ UNCHANGED <<jobVars, wrapVars>>

CliFont_Fallback ==
    /\ variant = "cli" /\ f_pc = "after"
    /\ f_font' = IF f_font = 0 THEN DEFAULT_FONT ELSE f_font
    /\ f_pc' = "resolved"
    /\ UNCHANGED <<variant, cand, f_i, emoji_font>>
    /\ UNCHANGED <<jobVars, wrapVars>>

\* print_text.py: one round of the loop; every path is tried, an emoji font
\* goes to emoji_font, the first other font to font.
PtFont_Try ==
    /\ variant = "print_text" /\ f_pc = "loop" /\ f_i <= Len(FontPathsPt)
    /\ IF cand[f_i] = "ok"
       THEN IF IsEmojiPath(FontPathsPt[f_i])
            THEN emoji_font' = f_i /\ f_font' = f_font
            ELSE /\ emoji_font' = emoji_font
                 /\ f_font' = IF f_font = 0 THEN f_i ELSE f_font
       ELSE UNCHANGED <<f_font, emoji_font>>
    /\ f_i' = f_i + 1
    /\ UNCHANGED <<f_pc, variant, cand>>
    /\ UNCHANGED <<jobVars, wrapVars>>

PtFont_Choose ==
    /\ variant = "print_text" /\ f_pc = "loop" /\ f_i > Len(FontPathsPt)
    /\ f_font' = IF emoji_font # 0 THEN emoji_font
                 ELSE IF f_font = 0 THEN DEFAULT_FONT ELSE f_font
    /\ f_pc' = "resolved"
    /\ UNCHANGED <<variant, cand, f_i, emoji_font>>
    /\ UNCHANGED <<jobVars, wrapVars>>

FontNext ==
    \/ CliFont_Try \/ CliFont_LoopEnd \/ CliFont_Fallback
    \/ PtFont_Try \/ PtFont_Choose

(***************************************************************************)
(* The specifications.                                                     *)
(***************************************************************************)
Init == JobInit /\ WrapIdle /\ FontIdle
Next == JobNext
Spec == Init /\ [][Next]_vars

WrapSpecInit == JobIdle /\ WrapInit /\ FontIdle
WrapSpec == WrapSpecInit /\ [][WrapNext]_vars

FontSpecInit == JobIdle /\ WrapIdle /\ FontInit
FontSpec == FontSpecInit /\ [][FontNext]_vars

(***************************************************************************)
(* Properties of the print jobs.                                           *)
(***************************************************************************)
Exited == pc = "exited"
Started(stage) == stage \in Range(stages)
TextJob == entry \in {"main_text", "print_text"}

\* C1: a text print job that created a temporary image file (no -o given)
\* leaves no file at that path once it has ended unless --keep-image was
\* given, whatever way it ended; with --keep-image the file is still there.
C1_TempCleanup ==
    (TextJob /\ Exited /\ temp_file) => (img_exists <=> keep_image)

\* C1 witness: a job with a temporary file has ended after a failed stage and
\* the file is gone.
C1_Witness ==
    /\ TextJob /\ Exited /\ temp_file /\ ~keep_image
    /\ failure # "none" /\ ~img_exists

\* C2: an image job whose energy lies outside [0, 0xffff] is rejected with an
\* input error before cmds_print_img is reached; run_ble is never called.
C2_EnergyRejected ==
    (entry = "main_image" /\ pc # "start" /\ (energy < 0 \/ energy > ENERGY_MAX))
        => /\ ~Started("ENCODE")
           /\ ~Started("TRANSMIT")
           /\ (Exited => failure # "none")

\* C3: when read_img returned an image whose width is not PRINT_WIDTH, the job
\* aborts: neither cmds_print_img nor run_ble is called with it.
C3_WidthChecked ==
    (bin_width # 0 /\ bin_width # PRINT_WIDTH)
        => /\ ~Started("ENCODE")
           /\ ~Started("TRANSMIT")
           /\ (Exited => failure # "none")

StageRank(st) ==
    CASE st = "ACQUIRE_IMAGE" -> 1
      [] st = "BINARIZE"      -> 2
      [] st = "PRINT"         -> 2     \* the child process: BINARIZE .. TRANSMIT
      [] st = "PREVIEW"       -> 3
      [] st = "ENCODE"        -> 4
      [] st = "TRANSMIT"      -> 5
      [] st = "FAIL"          -> 0
      [] st = "CLEANUP"       -> 6

\* The stages of the log without the failure marks.
RECURSIVE StagesRun(_)
StagesRun(log) ==
    IF log = <<>> THEN <<>>
    ELSE IF Head(log) = "FAIL" THEN StagesRun(Tail(log))
         ELSE <<Head(log)>> \o StagesRun(Tail(log))

\* Stages ran in the order of the state machine, none twice.
InOrderOnce(log) ==
    LET run == StagesRun(log)
    IN  \A i, j \in 1..Len(run) : i < j => StageRank(run[i]) < StageRank(run[j])

\* After a failure nothing but CLEANUP was started.
AbortsAfterFailure(log) ==
    \A i \in 1..Len(log) :
        log[i] = "FAIL" => SubSeq(log, i + 1, Len(log)) \in {<<>>, <<"CLEANUP">>}

\* C4 as stated: in a text job the stages run in order, none twice; a failed
\* stage (a missing input file included) aborts all others but CLEANUP, and
\* CLEANUP has run once the job has ended.
C4_StagesAsStated ==
    TextJob =>
        /\ InOrderOnce(stages)
        /\ AbortsAfterFailure(stages)
        /\ (Exited /\ failure # "none" => Started("CLEANUP"))

\* C4 amended: as C4, but CLEANUP runs after every failure other than a
\* missing input file; a missing input file ends the job before any
\* temporary file was created, without CLEANUP.
C4_StagesAmended ==
    TextJob =>
        /\ InOrderOnce(stages)
        /\ AbortsAfterFailure(stages)
        /\ (Exited /\ failure \notin {"none", "missing_file"} => Started("CLEANUP"))
        /\ (Exited /\ failure = "none" => Started("CLEANUP"))
        /\ (Exited /\ failure = "missing_file"
               => stages = <<"ACQUIRE_IMAGE", "FAIL">> /\ ~temp_file)

\* C4 witness: a text job whose binarization failed has ended with CLEANUP.
C4_Witness ==
    /\ entry = "main_text" /\ Exited /\ failure = "binarize"
    /\ stages = <<"ACQUIRE_IMAGE", "BINARIZE", "FAIL", "CLEANUP">>

\* C5: every entry point ends with status 0 only if every stage succeeded,
\* and with a non-zero status whenever a stage failed.
C5_ExitStatus ==
    Exited => (exit_status = 0 <=> failure = "none")

(***************************************************************************)
(* Properties of convert_text_to_image.                                    *)
(***************************************************************************)
RECURSIVE Flatten(_)
Flatten(ss) == IF ss = <<>> THEN <<>> ELSE Head(ss) \o Flatten(Tail(ss))

Count(s, x) == Cardinality({i \in 1..Len(s) : s[i] = x})

\* A call of wrap_text_to_width has just returned: words and wrapped are its.
WrapReturned == w_pc = "wrap" /\ words # <<>>

\* C6: the lines wrap_text_to_width returns are the single-space joins of
\* consecutive runs of the tokens, every token in exactly one line and in
\* order; a line fits the budget or is a single token; a token wider than
\* the budget is a line of its own.
C6_WrapKeepsTokens ==
    WrapReturned =>
        LET max_width == width - WIDTH_MARGIN
        IN  /\ Flatten([i \in 1..Len(wrapped) |-> Split(wrapped[i], " ")]) = words
            /\ \A i \in 1..Len(wrapped) :
                  \/ TextWidth(font, wrapped[i]) <= max_width
                  \/ Len(Split(wrapped[i], " ")) = 1
            /\ \A k \in 1..Len(words) :
                  TextWidth(font, words[k]) > max_width
                      => \E i \in 1..Len(wrapped) : wrapped[i] = words[k]

\* C6 witness: a line was wrapped into several lines, one of them holding two
\* tokens and another a single token wider than the budget.
C6_Witness ==
    /\ WrapReturned
    /\ \E i, j \in 1..Len(wrapped) :
          /\ Len(Split(wrapped[i], " ")) = 2
          /\ TextWidth(font, wrapped[i]) <= width - WIDTH_MARGIN
          /\ TextWidth(font, wrapped[j]) > width - WIDTH_MARGIN
          /\ width - WIDTH_MARGIN > 0

\* The lines of the text file: the pieces between line ends (a line end at the
\* end of the file ends the last line, it starts no further one).
DocLines(r) ==
    IF r = <<>> THEN <<>>
    ELSE IF r[Len(r)] = "\n" THEN SubSeq(Split(r, "\n"), 1, Len(Split(r, "\n")) - 1)
    ELSE Split(r, "\n")

Blank(line) == Strip(line) = <<>>

\* How many lines of the file lie before the line original_lines[1].
LinesBefore(r) == Count(SubSeq(r, 1, Len(r) - Len(LStrip(r))), "\n")

\* The index, among the lines of the file, of the line wrapped line i is from.
DocLineOf(i) == origin[i] + LinesBefore(raw)

Converted == w_pc = "returned" /\ result = "True"

\* C7: every blank line of the file, wherever it stands, gives exactly one
\* empty wrapped line at its place, and no other empty wrapped line exists.
C7_BlankLinesKept ==
    Converted =>
        /\ \A d \in 1..Len(DocLines(raw)) :
              Blank(DocLines(raw)[d]) =>
                  /\ Cardinality({i \in 1..Len(wrapped_lines) : DocLineOf(i) = d}) = 1
                  /\ \A i \in 1..Len(wrapped_lines) :
                        DocLineOf(i) = d => wrapped_lines[i] = <<>>
        /\ \A i \in 1..Len(wrapped_lines) :
              wrapped_lines[i] = <<>> => Blank(DocLines(raw)[DocLineOf(i)])

\* C8: a width with width - 20 <= 0 makes the conversion fail at once: no
\* line is wrapped, no image is saved, False is returned.
C8_FailsFast ==
    (w_pc # "idle" /\ width - WIDTH_MARGIN <= 0) =>
        /\ wrapped_lines = <<>>
        /\ ~saved
        /\ (w_pc = "returned" => result = "False")

\* C9: the tokens wrap_text_to_width works on hold no empty string, and it
\* returns no empty line for a non-blank input line.
C9_NoEmptyTokens ==
    WrapReturned =>
        /\ \A k \in 1..Len(words) : words[k] # <<>>
        /\ \A i \in 1..Len(wrapped) : wrapped[i] # <<>>

\* The drawing loop is running or has ended: the image exists.
Composing == w_pc = "draw" \/ (w_pc = "returned" /\ draw_no > 0)
DrawingDone == Composing /\ draw_no > Len(wrapped_lines)

\* The height the compositor gives wrapped line k: as measured, or font_size
\* for a blank line.
HeightOfLine(k) ==
    IF Blank(wrapped_lines[k]) THEN Fonts[font].size
    ELSE TextHeight(font, wrapped_lines[k])

\* The cursor starts at the padding and has moved by height + spacing for
\* every line passed, blank or not; the canvas is as wide as asked.
CursorAdvances ==
    /\ y_position = PADDING + SumSeq([k \in 1..(draw_no - 1) |->
                                         HeightOfLine(k) + LINE_SPACING])
    /\ img_size[1] = width

\* C11 as stated: the cursor starts at the padding and advances by
\* lineHeight + 5 after every line; the canvas height is the cursor after the
\* last line plus the trailing padding, at least 50; the canvas width is the
\* target width.
C11_CanvasAsStated ==
    /\ Composing => CursorAdvances
    /\ DrawingDone => img_size[2] = Max2(y_position + PADDING, MIN_HEIGHT)

\* C11 amended: as C11, but the canvas height is the cursor after the last
\* line less the spacing that follows the last line, plus the trailing
\* padding, at least 50: sum of heights + 5 * (lines - 1) + 20.
C11_CanvasAmended ==
    /\ Composing => CursorAdvances
    /\ DrawingDone =>
          img_size[2] = Max2(y_position - LINE_SPACING + PADDING, MIN_HEIGHT)

\* C11 witness: all lines are drawn, a blank one among them, and the canvas
\* is higher than the minimum.
C11_Witness ==
    /\ DrawingDone
    /\ \E k \in 1..Len(wrapped_lines) : wrapped_lines[k] = <<>>
    /\ \E k \in 1..Len(wrapped_lines) : wrapped_lines[k] # <<>>
    /\ img_size[2] > MIN_HEIGHT

(***************************************************************************)
(* Properties of the font lookup.                                          *)
(***************************************************************************)
Loadable == {k \in 1..Len(cand) : cand[k] = "ok"}
First(S) == CHOOSE k \in S : \A j \in S : k <= j

\* C10: the lookup ends with the first candidate that loads (print_text.py:
\* the first emoji candidate that loads if there is one, else the first other
\* candidate that loads), and with the default font exactly if none loads.
C10_FirstLoadable ==
    f_pc = "resolved" =>
        LET symbol == {k \in Loadable : IsEmojiPath(FontPaths(variant)[k])}
        IN  f_font = IF Loadable = {} THEN DEFAULT_FONT
                     ELSE IF variant = "print_text" /\ symbol # {} THEN First(symbol)
                     ELSE First(Loadable)

====
